---------------------------- MODULE Spec2Model ----------------------------
(***************************************************************************)
(* The streaming response pipeline of agentverse_conn.                     *)
(*                                                                         *)
(*   consumer  frontend/src/hooks/useChat.ts      (useChat, sendMessage)   *)
(*   decoder   frontend/src/services/api.ts       (ApiService.streamChat)  *)
(*   producer  backend stream_response / generate (documented in           *)
(*             TECHSTACK.md; the Python file itself is not in the tree)    *)
(*                                                                         *)
(* Text is a sequence of one-character strings.  A Message is a record     *)
(* [role, content, tools_used]; the timestamp field is never read by the   *)
(* hook and is left out.  tools_used = undefined and tools_used = [] are   *)
(* both <<>>: the only reader (useChat.ts:81-83) normalises undefined to   *)
(* [] before use.                                                          *)
(***************************************************************************)
EXTENDS Integers, Sequences, FiniteSets, TLC

VARIABLES
    \* ---- useChat state (useChat.ts:6-9)
    messages,       \* Message[]
    isStreaming,    \* boolean
    activeTools,    \* ToolActivity[]
    error,          \* string | null
    \* ---- ChatInterface state and the values the current render closed over
    sessionId,      \* ChatInterface.tsx:11
    cbSessionId,    \* sessionId captured by the rendered sendMessage (deps, useChat.ts:127)
    cbIsStreaming,  \* isStreaming captured by the rendered sendMessage
    \* ---- one entry per accepted sendMessage activation (its locals and its stream)
    calls,
    timers,         \* pending setTimeout callbacks (useChat.ts:99-103), oldest first
    lastSend,       \* the most recent sendMessage invocation: [content, rejected]
    delivered,      \* events folded so far, over all streams (bounds the behaviour)
    \* ---- producer (stream_response) state
    ppc, plog, pmsg, presp, pidx, pout,
    \* ---- streamChat read loop over a byte stream
    wire, wirePos, pending, buffer, yielded, released

hookVars == <<messages, isStreaming, activeTools, error, sessionId, cbSessionId,
              cbIsStreaming, calls, timers, lastSend, delivered>>
prodVars == <<ppc, plog, pmsg, presp, pidx, pout>>
readVars == <<wirePos, pending, buffer, yielded, released>>
wireVars == <<wire, readVars>>
vars == <<hookVars, prodVars, wireVars>>

-----------------------------------------------------------------------------
(* Bounds of the model *)

\* accepted sendMessage activations in one behaviour
MaxSends == 2
\* events delivered over all streams of one behaviour
MaxEvents == 2

-----------------------------------------------------------------------------
(* Values *)

NULL == "<null>"

\* JavaScript String.prototype.trim strips these from both ends
WhiteSpace == {" ", "\n", "\t"}

RECURSIVE TrimStart(_)
TrimStart(s) ==
    IF s # <<>> /\ Head(s) \in WhiteSpace THEN TrimStart(Tail(s)) ELSE s

RECURSIVE TrimEnd(_)
TrimEnd(s) ==
    IF s # <<>> /\ s[Len(s)] \in WhiteSpace
    THEN TrimEnd(SubSeq(s, 1, Len(s) - 1)) ELSE s

Trim(s) == TrimEnd(TrimStart(s))

\* what a caller may pass to sendMessage
Contents == { <<>>, <<" ">>, <<" ", "h", "i", " ">> }

ToolNames == {"search", "calculator"}

\* a StreamEvent; an absent optional field is the empty text / empty string,
\* which the fold cannot tell from an empty one (it tests truthiness)
Ev(t, c, n, s, m) ==
    [type |-> t, content |-> c, tool_name |-> n, status |-> s, message |-> m]

MessageEv(c) == Ev("message", c, "", "", "")
ToolEv(n, s) == Ev("tool", <<>>, n, s, "")
ErrorEv(m)   == Ev("error", <<>>, "", "", m)
DoneEv       == Ev("done", <<>>, "", "", "")

\* JSON null as a yielded value (the record data: null)
NullValue == Ev(NULL, <<>>, "", "", "")

\* the events the environment may put on a stream read by the hook
StreamEvents ==
    { MessageEv(<<"a">>), ErrorEv("boom"), ErrorEv(""), DoneEv,
      Ev("ping", <<>>, "", "", ""), NullValue,
      ToolEv("search", "start"), ToolEv("search", "end") }

UserMessage(c)   == [role |-> "user", content |-> c, tools_used |-> <<>>]
AssistantMessage == [role |-> "assistant", content |-> <<>>, tools_used |-> <<>>]


-----------------------------------------------------------------------------
(* useChat: the fold of one StreamEvent (useChat.ts:51-117)                *)
(*                                                                         *)
(* The state updaters of one event are applied in the order they are       *)
(* queued.  h is the hook state the event is folded into together with     *)
(* the activation's own running text:                                      *)
(*   [messages, isStreaming, activeTools, error, timers, assistantContent] *)

RECURSIVE SelectSeq2(_, _)
\* Array.prototype.filter by tool name (useChat.ts:100-102)
SelectSeq2(s, name) ==
    IF s = <<>> THEN <<>>
    ELSE IF Head(s).name # name THEN <<Head(s)>> \o SelectSeq2(Tail(s), name)
    ELSE SelectSeq2(Tail(s), name)

\* a membership test that never finds the name
NeverIncludes(s, x) == FALSE

Includes(s, x) == \E i \in 1..Len(s) : s[i] = x

\* a fold that shows the latest chunk instead of the running text
FoldMessageReplacing(h, ev) ==
    IF ev.content = <<>> THEN h
    ELSE LET n == Len(h.messages)
         IN [h EXCEPT !.assistantContent = ev.content,
                      !.messages = IF n = 0 THEN @
                                   ELSE [@ EXCEPT ![n].content = ev.content]]

\* a fold that shows each chunk as an entry of its own
FoldMessageAppendingEntry(h, ev) ==
    IF ev.content = <<>> THEN h
    ELSE LET ac == h.assistantContent \o ev.content
         IN [h EXCEPT !.assistantContent = ac,
                      !.messages = Append(@, [role |-> "assistant", content |-> ac,
                                              tools_used |-> <<>>])]

\* case 'message' (useChat.ts:55-67)
FoldMessage(h, ev) ==
    IF ev.content = <<>> THEN h
    ELSE LET ac == h.assistantContent \o ev.content
             n  == Len(h.messages)
         IN [h EXCEPT !.assistantContent = ac,
                      !.messages = IF n = 0 THEN @
                                   ELSE [@ EXCEPT ![n].content = ac]]

\* case 'tool', status 'start' (useChat.ts:71-88)
FoldToolStart(h, ev) ==
    LET n == Len(h.messages)
    IN [h EXCEPT !.activeTools = Append(@, [name |-> ev.tool_name, status |-> "active"]),
                 !.messages = IF n = 0 \/ Includes(@[n].tools_used, ev.tool_name) THEN @
                              ELSE [@ EXCEPT ![n].tools_used = Append(@, ev.tool_name)]]

\* case 'tool', status 'end' (useChat.ts:89-104)
FoldToolEnd(h, ev) ==
    [h EXCEPT !.activeTools = [i \in 1..Len(@) |->
                                  IF @[i].name = ev.tool_name
                                  THEN [@[i] EXCEPT !.status = "completed"]
                                  ELSE @[i]],
              !.timers = Append(@, ev.tool_name)]

\* a switch on the tool status that takes every status but start for end
FoldToolEndByDefault(h, ev) ==
    IF ev.tool_name = "" THEN h
    ELSE IF ev.status = "start" THEN FoldToolStart(h, ev)
    ELSE FoldToolEnd(h, ev)

\* case 'tool' (useChat.ts:69-106)
FoldTool(h, ev) ==
    IF ev.tool_name = "" THEN h
    ELSE IF ev.status = "start" THEN FoldToolStart(h, ev)
    ELSE IF ev.status = "end" THEN FoldToolEnd(h, ev)
    ELSE h

\* a fold of error that gives up the turn like the catch block
FoldErrorDiscarding(h, ev) ==
    [h EXCEPT !.error = IF ev.message = "" THEN "An error occurred" ELSE ev.message,
              !.messages = SubSeq(@, 1, Len(@) - 1)]

\* case 'error' (useChat.ts:108-110)
FoldError(h, ev) ==
    [h EXCEPT !.error = IF ev.message = "" THEN "An error occurred" ELSE ev.message]

\* a fold of done that leaves the turn marked as streaming
FoldDoneStillStreaming(h) ==
    [h EXCEPT !.activeTools = <<>>]

\* case 'done' (useChat.ts:112-115); the break leaves the switch, not the loop
FoldDone(h) ==
    [h EXCEPT !.isStreaming = FALSE, !.activeTools = <<>>]

\* the switch (useChat.ts:54-116)
Fold(h, ev) ==
    CASE ev.type = "message" -> FoldMessage(h, ev)
      [] ev.type = "tool"    -> FoldTool(h, ev)
      [] ev.type = "error"   -> FoldError(h, ev)
      [] ev.type = "done"    -> FoldDone(h)
      [] OTHER               -> h

\* reading streamEvent.type of a yielded null is a TypeError (useChat.ts:52-54)
Throws(ev) == ev = NullValue

\* the catch block (useChat.ts:118-125)
Catch(h, msg) ==
    [h EXCEPT !.error = msg,
              !.isStreaming = FALSE,
              !.activeTools = <<>>,
              !.messages = SubSeq(@, 1, Len(@) - 1)]

RECURSIVE FoldAll(_, _)
\* the for-await loop over the events one read yields, in order; an event the
\* body throws on ends the loop in the catch block (useChat.ts:50-125)
FoldAll(h, evs) ==
    IF evs = <<>> THEN [h |-> h, thrown |-> FALSE]
    ELSE IF Throws(Head(evs))
         THEN [h |-> Catch(h, "Cannot read properties of null"), thrown |-> TRUE]
    ELSE FoldAll(Fold(h, Head(evs)), Tail(evs))

\* the hook state as seen by activation i
HookOf(i) ==
    [messages |-> messages, isStreaming |-> isStreaming, activeTools |-> activeTools,
     error |-> error, timers |-> timers, assistantContent |-> calls[i].assistantContent]

\* write a folded state back
SetHook(h) ==
    /\ messages' = h.messages
    /\ isStreaming' = h.isStreaming
    /\ activeTools' = h.activeTools
    /\ error' = h.error
    /\ timers' = h.timers

-----------------------------------------------------------------------------
(* useChat / ChatInterface: the operations                                 *)

\* the guard without its isStreaming test
RejectedIgnoringStreaming(content) ==
    cbSessionId = NULL \/ Trim(content) = <<>>

\* the guard testing content instead of content.trim()
RejectedWithoutTrim(content) ==
    cbSessionId = NULL \/ content = <<>> \/ cbIsStreaming

\* the guard of sendMessage (useChat.ts:25), on the values the callback closed over
Rejected(content) ==
    cbSessionId = NULL \/ Trim(content) = <<>> \/ cbIsStreaming

\* a stream is in flight from the request until streamChat returns or throws
InFlight(i) == calls[i].pc \in {"fetch", "read"}

\* ChatInterface.handleNewSession on mount (ChatInterface.tsx:15-34)
HandleNewSession ==
    /\ sessionId = NULL
    /\ sessionId' = "s1"
    /\ UNCHANGED <<messages, isStreaming, activeTools, error, cbSessionId,
                   cbIsStreaming, calls, timers, lastSend, delivered>>
    /\ UNCHANGED <<prodVars, wireVars>>

\* a re-render: useCallback rebuilds sendMessage over the current state (useChat.ts:127)
Render ==
    /\ <<cbSessionId, cbIsStreaming>> # <<sessionId, isStreaming>>
    /\ cbSessionId' = sessionId
    /\ cbIsStreaming' = isStreaming
    /\ UNCHANGED <<messages, isStreaming, activeTools, error, sessionId,
                   calls, timers, lastSend, delivered>>
    /\ UNCHANGED <<prodVars, wireVars>>

\* a send that shows the user message only
SendMessageWithoutPlaceholder(content) ==
    /\ lastSend' = [content |-> content, rejected |-> Rejected(content)]
    /\ IF Rejected(content)
       THEN UNCHANGED <<messages, isStreaming, activeTools, error, calls>>
       ELSE /\ Len(calls) < MaxSends
            /\ isStreaming' = TRUE
            /\ error' = NULL
            /\ messages' = messages \o <<UserMessage(Trim(content))>>
            /\ calls' = Append(calls, [pc |-> "fetch",
                                       session_id |-> cbSessionId,
                                       message |-> content,
                                       base |-> Len(messages),
                                       assistantContent |-> <<>>])
            /\ UNCHANGED activeTools
    /\ UNCHANGED <<sessionId, cbSessionId, cbIsStreaming, timers, delivered>>
    /\ UNCHANGED <<prodVars, wireVars>>

\* sendMessage(content), up to its first await (useChat.ts:23-51, api.ts:88-94)
SendMessage(content) ==
    /\ lastSend' = [content |-> content, rejected |-> Rejected(content)]
    /\ IF Rejected(content)
       THEN UNCHANGED <<messages, isStreaming, activeTools, error, calls>>
       ELSE /\ Len(calls) < MaxSends
            /\ isStreaming' = TRUE
            /\ error' = NULL
            /\ messages' = messages \o <<UserMessage(Trim(content)), AssistantMessage>>
            /\ calls' = Append(calls, [pc |-> "fetch",
                                       session_id |-> cbSessionId,
                                       message |-> content,
                                       base |-> Len(messages),
                                       assistantContent |-> <<>>])
            /\ UNCHANGED activeTools
    /\ UNCHANGED <<sessionId, cbSessionId, cbIsStreaming, timers, delivered>>
    /\ UNCHANGED <<prodVars, wireVars>>

\* the response arrives with a 2xx status and a readable body (api.ts:96-106)
FetchOk(i) ==
    /\ calls[i].pc = "fetch"
    /\ calls' = [calls EXCEPT ![i].pc = "read"]
    /\ UNCHANGED <<messages, isStreaming, activeTools, error, sessionId,
                   cbSessionId, cbIsStreaming, timers, lastSend, delivered>>
    /\ UNCHANGED <<prodVars, wireVars>>

\* what streamChat throws before it has a reader (api.ts:88, 96-103)
FetchErrors ==
    [reject |-> "Failed to fetch",
     status |-> "Chat request failed",
     nobody |-> "Response body is not readable"]

\* the request fails: streamChat throws, sendMessage's catch runs (useChat.ts:118-125)
FetchFail(i, kind) ==
    /\ calls[i].pc = "fetch"
    /\ calls' = [calls EXCEPT ![i].pc = "caught"]
    /\ SetHook(Catch(HookOf(i), FetchErrors[kind]))
    /\ UNCHANGED <<sessionId, cbSessionId, cbIsStreaming, lastSend, delivered>>
    /\ UNCHANGED <<prodVars, wireVars>>

\* a read yields one event and the loop body folds it (api.ts:110-127, useChat.ts:51-117)
ReadEvent(i, ev) ==
    /\ calls[i].pc = "read"
    /\ delivered < MaxEvents
    /\ delivered' = delivered + 1
    /\ LET f == FoldAll(HookOf(i), <<ev>>)
       IN /\ SetHook(f.h)
          /\ calls' = [calls EXCEPT ![i].assistantContent = f.h.assistantContent,
                                    ![i].pc = IF f.thrown THEN "caught" ELSE @]
    /\ UNCHANGED <<sessionId, cbSessionId, cbIsStreaming, lastSend>>
    /\ UNCHANGED <<prodVars, wireVars>>

\* the transport closes: read() reports done, the generator returns and the
\* for-await loop ends (api.ts:110-111, 129-131; useChat.ts:117, 126)
ReadEnd(i) ==
    /\ calls[i].pc = "read"
    /\ calls' = [calls EXCEPT ![i].pc = "returned"]
    /\ UNCHANGED <<messages, isStreaming, activeTools, error, sessionId,
                   cbSessionId, cbIsStreaming, timers, lastSend, delivered>>
    /\ UNCHANGED <<prodVars, wireVars>>

\* read() rejects mid-stream: finally releases, the catch block runs
\* (api.ts:110, 129-131; useChat.ts:118-125)
ReadFail(i) ==
    /\ calls[i].pc = "read"
    /\ calls' = [calls EXCEPT ![i].pc = "caught"]
    /\ SetHook(Catch(HookOf(i), "network error"))
    /\ UNCHANGED <<sessionId, cbSessionId, cbIsStreaming, lastSend, delivered>>
    /\ UNCHANGED <<prodVars, wireVars>>

\* a removal that complains when the entry is not there
TimerFireStrict ==
    /\ timers # <<>>
    /\ activeTools' = SelectSeq2(activeTools, Head(timers))
    /\ timers' = Tail(timers)
    /\ error' = IF \E i \in 1..Len(activeTools) : activeTools[i].name = Head(timers)
                THEN error ELSE "tool not found"
    /\ UNCHANGED <<messages, isStreaming, sessionId, cbSessionId,
                   cbIsStreaming, calls, lastSend, delivered>>
    /\ UNCHANGED <<prodVars, wireVars>>

\* the oldest removal timer fires (useChat.ts:99-103)
TimerFire ==
    /\ timers # <<>>
    /\ activeTools' = SelectSeq2(activeTools, Head(timers))
    /\ timers' = Tail(timers)
    /\ UNCHANGED <<messages, isStreaming, error, sessionId, cbSessionId,
                   cbIsStreaming, calls, lastSend, delivered>>
    /\ UNCHANGED <<prodVars, wireVars>>

-----------------------------------------------------------------------------
(* The wire format.  A byte is modelled as a one-unit string.  The framing  *)
(* prefix, the line feed, JSON punctuation, JSON white space and the text   *)
(* of a message are single characters; a JSON key or keyword value          *)
(* ("type", "message", ...) is one indivisible unit, so a read chunk never  *)
(* ends inside one: for the decoder such a unit is an ordinary in-line      *)
(* character.  <C3> <A9> is the two-byte UTF-8 encoding of one character.   *)

DQ == "\""
BS == "\\"
LF == "\n"

\* the line prefix streamChat looks for (api.ts:118)
DataPrefix == <<"d", "a", "t", "a", ":", " ">>

RECURSIVE JsonEscape(_)
\* json.dumps of the characters of a string: quote, backslash and line feed
\* are escaped
JsonEscape(t) ==
    IF t = <<>> THEN <<>>
    ELSE LET c == Head(t)
         IN (IF c = DQ THEN <<BS, DQ>>
             ELSE IF c = BS THEN <<BS, BS>>
             ELSE IF c = LF THEN <<BS, "n">>
             ELSE <<c>>) \o JsonEscape(Tail(t))

JsonString(t) == <<DQ>> \o JsonEscape(t) \o <<DQ>>

JsonMember(key, t) == JsonString(<<key>>) \o <<":", " ">> \o JsonString(t)

\* json.dumps(event) for the dicts stream_response yields (TECHSTACK.md:128, 460)
JsonDumps(ev) ==
    <<"{">> \o JsonMember("type", <<ev.type>>)
    \o (CASE ev.type = "message" -> <<",", " ">> \o JsonMember("content", ev.content)
          [] ev.type = "tool"    -> <<",", " ">> \o JsonMember("tool_name", <<ev.tool_name>>)
                                    \o <<",", " ">> \o JsonMember("status", <<ev.status>>)
          [] ev.type = "error"   -> <<",", " ">> \o JsonMember("message", <<ev.message>>)
          [] OTHER               -> <<>>)
    \o <<"}">>

\* one server-sent-events record: f"data: {json.dumps(event)}\n\n" (TECHSTACK.md:128)
Frame(ev) == DataPrefix \o JsonDumps(ev) \o <<LF, LF>>

-----------------------------------------------------------------------------
(* JSON.parse of one record's payload (api.ts:121).  The parser reads null  *)
(* and objects whose members are strings, the JSON white space between      *)
(* tokens and the escapes \" \\ \/ \n \t; every other text is a syntax      *)
(* error, as are the texts no stream of the model carries.                  *)

JsonWs == {" ", "\t"}

ParseFail == [ok |-> FALSE, val |-> <<>>, next |-> 0]
ParseOk(v, n) == [ok |-> TRUE, val |-> v, next |-> n]

RECURSIVE SkipWs(_, _)
SkipWs(s, i) == IF i <= Len(s) /\ s[i] \in JsonWs THEN SkipWs(s, i + 1) ELSE i

RECURSIVE ScanString(_, _, _)
\* the characters of a string literal from position i, after its opening quote
ScanString(s, i, acc) ==
    IF i > Len(s) THEN ParseFail
    ELSE IF s[i] = DQ THEN ParseOk(acc, i + 1)
    ELSE IF s[i] = BS
         THEN IF i + 1 > Len(s) THEN ParseFail
              ELSE IF s[i + 1] \in {DQ, BS, "/"}
                   THEN ScanString(s, i + 2, Append(acc, s[i + 1]))
              ELSE IF s[i + 1] = "n" THEN ScanString(s, i + 2, Append(acc, LF))
              ELSE IF s[i + 1] = "t" THEN ScanString(s, i + 2, Append(acc, "\t"))
              ELSE ParseFail
    ELSE IF s[i] \in {LF, "\t"} THEN ParseFail
    ELSE ScanString(s, i + 1, Append(acc, s[i]))

ParseString(s, i) ==
    IF i <= Len(s) /\ s[i] = DQ THEN ScanString(s, i + 1, <<>>) ELSE ParseFail

RECURSIVE ParseMembers(_, _, _)
\* "key": "value" pairs from position i up to the closing brace
ParseMembers(s, i, acc) ==
    LET k  == ParseString(s, i)
        c  == SkipWs(s, k.next)
        v  == ParseString(s, SkipWs(s, c + 1))
        e  == SkipWs(s, v.next)
        ms == Append(acc, <<k.val, v.val>>)
    IN IF ~k.ok \/ c > Len(s) \/ s[c] # ":" THEN ParseFail
       ELSE IF ~v.ok \/ e > Len(s) THEN ParseFail
       ELSE IF s[e] = "}" THEN ParseOk(ms, e + 1)
       ELSE IF s[e] = "," THEN ParseMembers(s, SkipWs(s, e + 1), ms)
       ELSE ParseFail

\* the value of a JSON text that is one word: a key, a type, a status
AsWord(t) == IF t = <<>> THEN "" ELSE IF Len(t) = 1 THEN t[1] ELSE "<text>"

RECURSIVE Lookup(_, _)
\* obj[key] of a parsed object; a later duplicate wins, an absent key is empty
Lookup(ms, key) ==
    IF ms = <<>> THEN <<>>
    ELSE IF ms[Len(ms)][1] = <<key>> THEN ms[Len(ms)][2]
    ELSE Lookup(SubSeq(ms, 1, Len(ms) - 1), key)

\* the StreamEvent view of a parsed object (the fields useChat reads)
ToEvent(ms) ==
    Ev(AsWord(Lookup(ms, "type")), Lookup(ms, "content"),
       AsWord(Lookup(ms, "tool_name")), AsWord(Lookup(ms, "status")),
       AsWord(Lookup(ms, "message")))

\* JSON.parse(data): ok is false where it throws (api.ts:120-125)
JsonParse(s) ==
    LET i == SkipWs(s, 1)
        r == IF i > Len(s) THEN ParseFail
             ELSE IF s[i] = "null" THEN ParseOk(NullValue, i + 1)
             ELSE IF s[i] = "{"
                  THEN LET j == SkipWs(s, i + 1)
                       IN IF j <= Len(s) /\ s[j] = "}"
                          THEN ParseOk(ToEvent(<<>>), j + 1)
                          ELSE LET m == ParseMembers(s, j, <<>>)
                               IN IF m.ok THEN ParseOk(ToEvent(m.val), m.next)
                                  ELSE ParseFail
             ELSE ParseFail
    IN IF r.ok /\ SkipWs(s, r.next) = Len(s) + 1 THEN r ELSE ParseFail

-----------------------------------------------------------------------------
(* ApiService.streamChat: the read loop (api.ts:105-131)                   *)

Lead        == "<C3>"
Cont        == "<A9>"
EAcute      == "<U+00E9>"
Replacement == "<U+FFFD>"

\* marks a byte that yields no character of its own
Skip == "<skip>"

NotSkip(c) == c # Skip

\* decoder.decode(value, { stream: true }) (api.ts:113): pend is the lead byte
\* held back from the previous chunk, or empty; a lead byte and its
\* continuation make one character, a lone one the replacement character,
\* a lead byte at the end of the chunk is held back
Utf8Decode(pend, bytes) ==
    LET s   == pend \o bytes
        n   == Len(s)
        out == [i \in 1..n |->
                  IF s[i] = Lead
                  THEN IF i = n THEN Skip
                       ELSE IF s[i + 1] = Cont THEN EAcute ELSE Replacement
                  ELSE IF s[i] = Cont
                  THEN IF i > 1 /\ s[i - 1] = Lead THEN Skip ELSE Replacement
                  ELSE s[i]]
    IN [chars   |-> SelectSeq(out, NotSkip),
        pending |-> IF n > 0 /\ s[n] = Lead THEN <<Lead>> ELSE <<>>]

\* buffer.split('\n') (api.ts:114): the segments between the line feeds, the
\* last one unterminated
SplitLF(s) ==
    LET n      == Len(s)
        lfs    == {i \in 1..n : s[i] = LF}
        starts == {1} \cup {i + 1 : i \in lfs}
        Nth(j) == CHOOSE a \in starts : Cardinality({b \in starts : b < a}) = j - 1
        End(a) == IF \E i \in lfs : i >= a
                  THEN CHOOSE i \in lfs : i >= a /\ \A j \in lfs : j >= a => i <= j
                  ELSE n + 1
    IN [j \in 1..Cardinality(starts) |-> SubSeq(s, Nth(j), End(Nth(j)) - 1)]

\* a buffer that forgets the unterminated segment
DroppedBuffer(segs) == <<>>

\* buffer = lines.pop() || '' (api.ts:115)
KeptBuffer(segs) == segs[Len(segs)]

\* line.startsWith('data: ') (api.ts:118)
StartsWithData(line) ==
    Len(line) >= Len(DataPrefix) /\ SubSeq(line, 1, Len(DataPrefix)) = DataPrefix

\* what one line yields (api.ts:118-126)
LineEvents(line) ==
    IF StartsWithData(line)
    THEN LET r == JsonParse(SubSeq(line, Len(DataPrefix) + 1, Len(line)))
         IN IF r.ok THEN <<r.val>> ELSE <<>>
    ELSE <<>>

RECURSIVE LinesUntilSkipped(_)
\* a line loop that gives up at the first line it cannot yield
LinesUntilSkipped(lines) ==
    IF lines = <<>> \/ LineEvents(Head(lines)) = <<>> THEN <<>>
    ELSE LineEvents(Head(lines)) \o LinesUntilSkipped(Tail(lines))

RECURSIVE LinesEvents(_)
\* the for loop over the complete lines (api.ts:117-127)
LinesEvents(lines) ==
    IF lines = <<>> THEN <<>> ELSE LineEvents(Head(lines)) \o LinesEvents(Tail(lines))

\* one pass of the while loop on a chunk of bytes (api.ts:113-127)
ReadChunk(pend, buf, chunk) ==
    LET d    == Utf8Decode(pend, chunk)
        segs == SplitLF(buf \o d.chars)
    IN [pending |-> d.pending,
        buffer  |-> KeptBuffer(segs),
        events  |-> LinesEvents(SubSeq(segs, 1, Len(segs) - 1))]

-----------------------------------------------------------------------------
(* The producer: stream_response behind POST /api/chat                     *)

\* chunk_size (TECHSTACK.md:457)
chunk_size == 10

\* longest extracted response
MaxTextLen == 21

Min(a, b) == IF a < b THEN a ELSE b

\* a response text of length n; its characters cycle through letters and the
\* characters json.dumps escapes, with a period coprime to chunk_size
TextCycle == <<"a", DQ, "b", LF, BS, "c", " ">>
CycText(n) == [i \in 1..n |-> TextCycle[((i - 1) % Len(TextCycle)) + 1]]

Block(t)  == [hasText |-> TRUE, text |-> t]
OtherBlock == [hasText |-> FALSE, text |-> <<>>]

Result(kind, blocks, text) == [kind |-> kind, blocks |-> blocks, text |-> text]

\* what the opaque agent call may come back with
Results ==
    { Result("raise", <<>>, <<>>), Result("none", <<>>, <<>>) }
    \cup { Result("string", <<>>, CycText(n)) : n \in 0..MaxTextLen }
    \cup { Result("blocks", <<Block(CycText(n))>>, <<>>) : n \in 0..MaxTextLen }
    \cup { Result("blocks",
                  <<Block(SubSeq(CycText(n), 1, n \div 2)), OtherBlock,
                    Block(SubSeq(CycText(n), (n \div 2) + 1, n))>>,
                  <<>>) : n \in 0..MaxTextLen }

RECURSIVE JoinText(_)
\* ''.join of the text of the blocks that carry one (TECHSTACK.md:440-445)
JoinText(blocks) ==
    IF blocks = <<>> THEN <<>>
    ELSE (IF Head(blocks).hasText THEN Head(blocks).text ELSE <<>>)
         \o JoinText(Tail(blocks))

\* the flat response string of a result (TECHSTACK.md:432-445)
Extract(r) ==
    CASE r.kind = "blocks" -> JoinText(r.blocks)
      [] r.kind = "string" -> r.text
      [] OTHER             -> <<>>

\* the slice one character short: response_content[i:i + chunk_size - 1]
ChunkOneShort(resp, i) == SubSeq(resp, i + 1, Min(i + chunk_size - 1, Len(resp)))

\* response_content[i:i + chunk_size] (TECHSTACK.md:459)
Chunk(resp, i) == SubSeq(resp, i + 1, Min(i + chunk_size, Len(resp)))

\* a loop that stops before a trailing partial slice
MoreFullChunks(resp, i) == i + chunk_size <= Len(resp)

\* range(0, len(response_content), chunk_size) has a next index (TECHSTACK.md:458)
MoreChunks(resp, i) == i < Len(resp)

\* yield an event: generate() frames it onto the response body (TECHSTACK.md:127-128)
Emit(ev) ==
    /\ pout' = Append(pout, ev)
    /\ wire' = wire \o Frame(ev)

\* the request arrives: the user message is logged before any model work
PReceive(m) ==
    /\ ppc = "idle"
    /\ pmsg' = m
    /\ plog' = Append(plog, UserMessage(m))
    /\ ppc' = "invoke"
    /\ UNCHANGED <<presp, pidx, pout, wire>>
    /\ UNCHANGED <<hookVars, readVars>>

\* the agent call returns and the response text is extracted
PInvoke(r) ==
    /\ ppc = "invoke"
    /\ r.kind # "raise"
    /\ presp' = Extract(r)
    /\ pidx' = 0
    /\ ppc' = "chunk"
    /\ UNCHANGED <<pmsg, plog, pout, wire>>
    /\ UNCHANGED <<hookVars, readVars>>

\* a failure that ends the stream without saying so
PFailSilently(r) ==
    /\ ppc = "invoke"
    /\ r.kind = "raise"
    /\ ppc' = "closed"
    /\ UNCHANGED <<pmsg, plog, presp, pidx, pout, wire>>
    /\ UNCHANGED <<hookVars, readVars>>

\* a failure that takes the request's user message out of the log again
PFailRollingBack(r) ==
    /\ ppc = "invoke"
    /\ r.kind = "raise"
    /\ Emit(ErrorEv("boom"))
    /\ ppc' = "closed"
    /\ plog' = SubSeq(plog, 1, Len(plog) - 1)
    /\ UNCHANGED <<pmsg, presp, pidx>>
    /\ UNCHANGED <<hookVars, readVars>>

\* the agent call or the extraction raises: one error event, then the stream ends
PFail(r) ==
    /\ ppc = "invoke"
    /\ r.kind = "raise"
    /\ Emit(ErrorEv("boom"))
    /\ ppc' = "closed"
    /\ UNCHANGED <<pmsg, plog, presp, pidx>>
    /\ UNCHANGED <<hookVars, readVars>>

\* one turn of the chunk loop (TECHSTACK.md:458-461)
PChunk ==
    /\ ppc = "chunk"
    /\ MoreChunks(presp, pidx)
    /\ Emit(MessageEv(Chunk(presp, pidx)))
    /\ pidx' = pidx + chunk_size
    /\ UNCHANGED <<ppc, pmsg, plog, presp>>
    /\ UNCHANGED <<hookVars, readVars>>

\* the loop is over: the assistant message is logged, done is emitted, the
\* response body ends
PFinish ==
    /\ ppc = "chunk"
    /\ ~MoreChunks(presp, pidx)
    /\ plog' = Append(plog, [role |-> "assistant", content |-> presp, tools_used |-> <<>>])
    /\ Emit(DoneEv)
    /\ ppc' = "closed"
    /\ UNCHANGED <<pmsg, presp, pidx>>
    /\ UNCHANGED <<hookVars, readVars>>

-----------------------------------------------------------------------------
(* Idle values of the parts a specification does not exercise *)

ProdIdle ==
    /\ ppc = "idle" /\ plog = <<>> /\ pmsg = <<>> /\ presp = <<>>
    /\ pidx = 0 /\ pout = <<>>

WireIdle ==
    /\ wire = <<>> /\ wirePos = 0 /\ pending = <<>> /\ buffer = <<>>
    /\ yielded = <<>> /\ released = FALSE

HookInit ==
    /\ messages = <<>>
    /\ isStreaming = FALSE
    /\ activeTools = <<>>
    /\ error = NULL
    /\ sessionId = NULL
    /\ cbSessionId = NULL
    /\ cbIsStreaming = FALSE
    /\ calls = <<>>
    /\ timers = <<>>
    /\ lastSend = [content |-> <<>>, rejected |-> TRUE]
    /\ delivered = 0

-----------------------------------------------------------------------------
(* The consumer: ChatInterface + useChat against an arbitrary transport    *)

Init == HookInit /\ ProdIdle /\ WireIdle

Next ==
    \/ HandleNewSession
    \/ Render
    \/ \E content \in Contents : SendMessage(content)
    \/ \E i \in 1..Len(calls) : FetchOk(i)
    \/ \E i \in 1..Len(calls), kind \in DOMAIN FetchErrors : FetchFail(i, kind)
    \/ \E i \in 1..Len(calls), ev \in StreamEvents : ReadEvent(i, ev)
    \/ \E i \in 1..Len(calls) : ReadEnd(i)
    \/ \E i \in 1..Len(calls) : ReadFail(i)
    \/ TimerFire

Spec == Init /\ [][Next]_vars

-----------------------------------------------------------------------------
(* The producer alone: one request, any result of the agent call           *)

RequestMessages == { <<"h", "i">>, <<" ", "h", "i", " ">> }

InitProducer == HookInit /\ ProdIdle /\ WireIdle

NextProducer ==
    \/ \E m \in RequestMessages : PReceive(m)
    \/ \E r \in Results : PInvoke(r)
    \/ \E r \in Results : PFail(r)
    \/ PChunk
    \/ PFinish

SpecProducer == InitProducer /\ [][NextProducer]_vars

-----------------------------------------------------------------------------
(* The decoder alone: streamChat over any byte stream, cut into read       *)
(* chunks in any way                                                       *)

\* pieces a byte stream is put together from
MaxPieces == 2

Pieces ==
    { \* well-formed records, as the producer frames them (one line feed each)
      DataPrefix \o JsonDumps(MessageEv(<<"a", LF>>)) \o <<LF>>,
      DataPrefix \o JsonDumps(DoneEv) \o <<LF>>,
      \* a record whose text is a two-byte character
      DataPrefix \o <<"{">> \o JsonMember("type", <<"message">>) \o <<",">>
          \o JsonString(<<"content">>) \o <<":", DQ, Lead, Cont, DQ, "}", LF>>,
      \* the blank line that ends a record, a keep-alive comment
      <<LF>>,
      <<":", "k", LF>>,
      \* a record cut short, a payload that is no JSON, JSON null
      DataPrefix \o <<"{">> \o JsonString(<<"type">>) \o <<LF>>,
      DataPrefix \o <<"null", LF>>,
      \* the prefix without its space
      <<"d", "a", "t", "a", ":">> \o JsonDumps(DoneEv) \o <<LF>>,
      \* a record with no line feed after it, a stray lead byte
      DataPrefix \o JsonDumps(DoneEv),
      <<Lead>> }

RECURSIVE WiresOf(_)
\* the byte streams of at most n pieces
WiresOf(n) ==
    IF n = 0 THEN { <<>> }
    ELSE LET shorter == WiresOf(n - 1)
         IN shorter \cup { w \o q : w \in shorter, q \in Pieces }

\* lines streamChat has nothing to yield for: a blank line, a keep-alive
\* comment, a prefix without its space, a record cut short, a payload in
\* single quotes
SkippedLines ==
    { <<>>,
      <<":", "k">>,
      <<"d", "a", "t", "a", ":">> \o JsonDumps(DoneEv),
      DataPrefix \o <<"{">> \o JsonString(<<"type">>),
      DataPrefix \o <<"{", "'", "type", "'", ":", "'", "done", "'", "}">> }

\* a well-formed record, one of the skipped lines, a well-formed record
Interrupted ==
    { DataPrefix \o JsonDumps(MessageEv(<<"a">>)) \o <<LF>> \o b \o <<LF>>
        \o DataPrefix \o JsonDumps(DoneEv) \o <<LF>> : b \in SkippedLines }

InitStream ==
    /\ HookInit /\ ProdIdle
    /\ wire \in WiresOf(MaxPieces) \cup Interrupted
    /\ wirePos = 0 /\ pending = <<>> /\ buffer = <<>>
    /\ yielded = <<>> /\ released = FALSE

\* longest read short of the whole rest of the stream
MaxRead == 2

\* the sizes the next read may have: a few bytes, or all that is left
ReadSizes == { k \in 1..(Len(wire) - wirePos) : k <= MaxRead \/ wirePos + k = Len(wire) }

\* reader.read() resolves with the next k bytes; the loop body runs (api.ts:110-127)
StreamRead(k) ==
    /\ ~released
    /\ wirePos + k <= Len(wire)
    /\ \E r \in { ReadChunk(pending, buffer, SubSeq(wire, wirePos + 1, wirePos + k)) } :
          /\ pending' = r.pending
          /\ buffer' = r.buffer
          /\ yielded' = yielded \o r.events
    /\ wirePos' = wirePos + k
    /\ UNCHANGED <<wire, released>>
    /\ UNCHANGED <<hookVars, prodVars>>

\* a close that hands the rest of the buffer to the line loop
StreamEndFlushing ==
    /\ ~released
    /\ wirePos = Len(wire)
    /\ released' = TRUE
    /\ yielded' = yielded \o LineEvents(buffer)
    /\ UNCHANGED <<wire, wirePos, pending, buffer>>
    /\ UNCHANGED <<hookVars, prodVars>>

\* reader.read() resolves with done: break, then finally (api.ts:111, 129-131)
StreamEnd ==
    /\ ~released
    /\ wirePos = Len(wire)
    /\ released' = TRUE
    /\ UNCHANGED <<wire, wirePos, pending, buffer, yielded>>
    /\ UNCHANGED <<hookVars, prodVars>>

NextStream ==
    \/ \E k \in ReadSizes : StreamRead(k)
    \/ StreamEnd

SpecStream == InitStream /\ [][NextStream]_vars

-----------------------------------------------------------------------------
(* One turn end to end: sendMessage, the producer, the transport cutting   *)
(* the response body into read chunks, streamChat, the fold                *)

\* the request reaches the producer
TurnReceive ==
    /\ Len(calls) = 1
    /\ calls[1].pc = "fetch"
    /\ PReceive(calls[1].message)

\* the response headers are back once the producer has the request
TurnFetchOk ==
    /\ Len(calls) = 1
    /\ ppc # "idle"
    /\ FetchOk(1)

\* the first send of the session
TurnSend(content) ==
    /\ calls = <<>>
    /\ SendMessage(content)

\* a read of the next k bytes the producer has written, decoded and folded
\* (api.ts:110-127, useChat.ts:51-125)
TurnRead(k) ==
    /\ Len(calls) = 1
    /\ calls[1].pc = "read"
    /\ wirePos + k <= Len(wire)
    /\ \E r \in { ReadChunk(pending, buffer, SubSeq(wire, wirePos + 1, wirePos + k)) } :
       \E f \in { FoldAll(HookOf(1), r.events) } :
          /\ pending' = r.pending
          /\ buffer' = r.buffer
          /\ yielded' = yielded \o r.events
          /\ SetHook(f.h)
          /\ calls' = [calls EXCEPT ![1].assistantContent = f.h.assistantContent,
                                    ![1].pc = IF f.thrown THEN "caught" ELSE @]
          /\ released' = f.thrown
    /\ wirePos' = wirePos + k
    /\ UNCHANGED <<sessionId, cbSessionId, cbIsStreaming, lastSend, delivered>>
    /\ UNCHANGED <<prodVars, wire>>

\* the producer has closed the body and every byte was read (api.ts:111, 129-131)
TurnEnd ==
    /\ Len(calls) = 1
    /\ calls[1].pc = "read"
    /\ ppc = "closed"
    /\ wirePos = Len(wire)
    /\ released' = TRUE
    /\ calls' = [calls EXCEPT ![1].pc = "returned"]
    /\ UNCHANGED <<messages, isStreaming, activeTools, error, sessionId,
                   cbSessionId, cbIsStreaming, timers, lastSend, delivered>>
    /\ UNCHANGED <<prodVars, wire, wirePos, pending, buffer, yielded>>

InitTurn == HookInit /\ ProdIdle /\ WireIdle

NextTurn ==
    \/ HandleNewSession
    \/ Render
    \/ \E content \in Contents : TurnSend(content)
    \/ TurnReceive
    \/ TurnFetchOk
    \/ \E r \in Results : PInvoke(r)
    \/ \E r \in Results : PFail(r)
    \/ PChunk
    \/ PFinish
    \/ \E k \in ReadSizes : TurnRead(k)
    \/ TurnEnd

SpecTurn == InitTurn /\ [][NextTurn]_vars

-----------------------------------------------------------------------------
(* The fold alone: one turn of sendMessage over any sequence of events     *)
(* streamChat may yield, with the removal timers                           *)

\* most events yielded in the turn
MaxFold == 4

\* the events of the turn
FoldEvents ==
    { MessageEv(<<"a">>), MessageEv(<<"b">>),
      ToolEv("search", "start"), ToolEv("search", "end"),
      ToolEv("calculator", "start"), ToolEv("calculator", "end"),
      ErrorEv("boom"), ErrorEv(""), DoneEv }

\* the response of the turn's request arrives (api.ts:96-106)
FoldFetchOk ==
    /\ Len(calls) = 1
    /\ FetchOk(1)

\* streamChat yields ev and the loop body folds it (useChat.ts:51-117)
FoldRead(ev) ==
    /\ Len(calls) = 1
    /\ calls[1].pc = "read"
    /\ Len(yielded) < MaxFold
    /\ yielded' = Append(yielded, ev)
    /\ \E f \in { FoldAll(HookOf(1), <<ev>>) } :
          /\ SetHook(f.h)
          /\ calls' = [calls EXCEPT ![1].assistantContent = f.h.assistantContent,
                                    ![1].pc = IF f.thrown THEN "caught" ELSE @]
    /\ UNCHANGED <<sessionId, cbSessionId, cbIsStreaming, lastSend, delivered>>
    /\ UNCHANGED <<prodVars, wire, wirePos, pending, buffer, released>>

\* the body ends and the for-await loop with it (api.ts:110-111, useChat.ts:117)
FoldEnd ==
    /\ Len(calls) = 1
    /\ ReadEnd(1)

\* a read rejects: the catch block runs (useChat.ts:118-125)
FoldFail ==
    /\ Len(calls) = 1
    /\ ReadFail(1)

InitFold == HookInit /\ ProdIdle /\ WireIdle

NextFold ==
    \/ HandleNewSession
    \/ Render
    \/ \E content \in Contents : TurnSend(content)
    \/ FoldFetchOk
    \/ \E ev \in FoldEvents : FoldRead(ev)
    \/ FoldEnd
    \/ FoldFail
    \/ TimerFire

SpecFold == InitFold /\ [][NextFold]_vars

-----------------------------------------------------------------------------
(* One turn with the operations that replace the transcript: loadHistory   *)
(* after a session change, clearMessages                                   *)

\* most events yielded in the turn
MaxSessionFold == 3

SessionIds == {"s1", "s2"}

\* what getHistory may return for a session (api.ts:49-56)
Histories ==
    { <<>>,
      <<UserMessage(<<"o">>),
        [role |-> "assistant", content |-> <<"o", "k">>, tools_used |-> <<>>]>> }

\* the events of the turn
SessionEvents ==
    { MessageEv(<<"a">>), ToolEv("search", "start"), ToolEv("search", "end"), DoneEv }

\* ChatInterface.handleSessionSelect (ChatInterface.tsx:25-27)
HandleSessionSelect(id) ==
    /\ sessionId # NULL
    /\ id # sessionId
    /\ sessionId' = id
    /\ UNCHANGED <<messages, isStreaming, activeTools, error, cbSessionId,
                   cbIsStreaming, calls, timers, lastSend, delivered>>
    /\ UNCHANGED <<prodVars, wireVars>>

\* a loadHistory started by the effect on sessionId resolves with history h
\* (useChat.ts:11-17, ChatInterface.tsx:36-41)
LoadHistoryOk(h) ==
    /\ sessionId # NULL
    /\ messages' = h
    /\ error' = NULL
    /\ UNCHANGED <<isStreaming, activeTools, sessionId, cbSessionId,
                   cbIsStreaming, calls, timers, lastSend, delivered>>
    /\ UNCHANGED <<prodVars, wireVars>>

\* a loadHistory that reports a failure whether or not a session is selected
LoadHistoryFailUnguarded ==
    /\ error' = "Failed to fetch history"
    /\ UNCHANGED <<messages, isStreaming, activeTools, sessionId, cbSessionId,
                   cbIsStreaming, calls, timers, lastSend, delivered>>
    /\ UNCHANGED <<prodVars, wireVars>>

\* getHistory answers with a status that is not ok (useChat.ts:18-20, api.ts:50-53)
LoadHistoryFail ==
    /\ sessionId # NULL
    /\ error' = "Failed to fetch history"
    /\ UNCHANGED <<messages, isStreaming, activeTools, sessionId, cbSessionId,
                   cbIsStreaming, calls, timers, lastSend, delivered>>
    /\ UNCHANGED <<prodVars, wireVars>>

\* clearMessages (useChat.ts:130-133)
ClearMessages ==
    /\ messages' = <<>>
    /\ error' = NULL
    /\ UNCHANGED <<isStreaming, activeTools, sessionId, cbSessionId,
                   cbIsStreaming, calls, timers, lastSend, delivered>>
    /\ UNCHANGED <<prodVars, wireVars>>

\* the updater of a tool start reads tools_used of the last entry; on an empty
\* transcript that entry is undefined and the updater throws while React
\* renders, outside sendMessage's try (useChat.ts:78-87)
UpdaterThrows(ev) ==
    /\ messages = <<>>
    /\ ev.type = "tool" /\ ev.status = "start" /\ ev.tool_name # ""

\* streamChat yields ev and the loop body folds it (useChat.ts:51-117)
SessionRead(ev) ==
    /\ Len(calls) = 1
    /\ calls[1].pc = "read"
    /\ Len(yielded) < MaxSessionFold
    /\ yielded' = Append(yielded, ev)
    /\ IF UpdaterThrows(ev)
       THEN /\ calls' = [calls EXCEPT ![1].pc = "crashed"]
            /\ UNCHANGED <<messages, isStreaming, activeTools, error, timers>>
       ELSE \E f \in { FoldAll(HookOf(1), <<ev>>) } :
               /\ SetHook(f.h)
               /\ calls' = [calls EXCEPT ![1].assistantContent = f.h.assistantContent,
                                         ![1].pc = IF f.thrown THEN "caught" ELSE @]
    /\ UNCHANGED <<sessionId, cbSessionId, cbIsStreaming, lastSend, delivered>>
    /\ UNCHANGED <<prodVars, wire, wirePos, pending, buffer, released>>

InitSession == HookInit /\ ProdIdle /\ WireIdle

NextSession ==
    \/ HandleNewSession
    \/ \E id \in SessionIds : HandleSessionSelect(id)
    \/ Render
    \/ \E content \in Contents : TurnSend(content)
    \/ FoldFetchOk
    \/ \E ev \in SessionEvents : SessionRead(ev)
    \/ FoldEnd
    \/ FoldFail
    \/ TimerFire
    \/ \E h \in Histories : LoadHistoryOk(h)
    \/ LoadHistoryFail
    \/ ClearMessages

SpecSession == InitSession /\ [][NextSession]_vars

-----------------------------------------------------------------------------
(* The producer's canonical log with its history endpoints: turns, clear,  *)
(* and a history fetch that the hook's loadHistory puts in the transcript  *)

\* most entries of the canonical log
MaxLogLen == 4

\* what the agent call comes back with in these turns
HistoryResults ==
    { Result("raise", <<>>, <<>>),
      Result("string", <<>>, <<>>),
      Result("string", <<>>, CycText(chunk_size + 1)) }

\* the producer serves the next request: a new response body
PNext ==
    /\ ppc \in {"closed", "cleared"}
    /\ Len(plog) + 2 <= MaxLogLen
    /\ ppc' = "idle"
    /\ pmsg' = <<>> /\ presp' = <<>> /\ pidx' = 0 /\ pout' = <<>>
    /\ wire' = <<>>
    /\ UNCHANGED plog
    /\ UNCHANGED <<hookVars, readVars>>

\* a clear that discards the handle and leaves the log
PClearHandleOnly ==
    /\ ppc' = IF ppc \in {"idle", "closed", "cleared"} THEN "cleared" ELSE ppc
    /\ UNCHANGED <<plog, pmsg, presp, pidx, pout, wire>>
    /\ UNCHANGED <<hookVars, readVars>>

\* POST /api/clear: the log is emptied; between turns the held handle is
\* discarded
PClearHistory ==
    /\ plog' = <<>>
    /\ ppc' = IF ppc \in {"idle", "closed", "cleared"} THEN "cleared" ELSE ppc
    /\ UNCHANGED <<pmsg, presp, pidx, pout, wire>>
    /\ UNCHANGED <<hookVars, readVars>>

\* the history endpoint answers with the log; getHistory returns
\* data.messages and loadHistory stores them (api.ts:49-56, useChat.ts:15-17)
FetchHistory == LoadHistoryOk(plog)

InitHistory == HookInit /\ ProdIdle /\ WireIdle

NextHistory ==
    \/ HandleNewSession
    \/ \E m \in RequestMessages : PReceive(m)
    \/ \E r \in HistoryResults : PInvoke(r)
    \/ \E r \in HistoryResults : PFail(r)
    \/ PChunk
    \/ PFinish
    \/ PNext
    \/ PClearHistory
    \/ FetchHistory

SpecHistory == InitHistory /\ [][NextHistory]_vars

-----------------------------------------------------------------------------
(* One turn over a given response body: sendMessage consuming streamChat,  *)
(* with the reader lock and every way the generator ends                   *)

\* the response bodies of the turn
ReaderWires ==
    LET msg  == DataPrefix \o JsonDumps(MessageEv(<<"a">>)) \o <<LF>>
        done == DataPrefix \o JsonDumps(DoneEv) \o <<LF>>
        null == DataPrefix \o <<"null", LF>>
        cut  == DataPrefix \o <<"{">> \o JsonString(<<"type">>) \o <<LF>>
    IN { <<>>, null, msg \o done, msg \o null \o msg, msg \o cut \o msg,
         null \o done, msg \o DataPrefix \o JsonDumps(DoneEv) }

\* the index of the first event the loop body throws on, 0 when there is none
FirstThrow(evs) ==
    IF \E j \in 1..Len(evs) : Throws(evs[j])
    THEN CHOOSE j \in 1..Len(evs) : Throws(evs[j]) /\ \A i \in 1..(j - 1) : ~Throws(evs[i])
    ELSE 0

\* a read of the next k bytes: the lines are decoded and each event is yielded
\* to the loop body; when the body throws, for-await ends the generator at
\* that yield and its finally block runs (api.ts:108-131, useChat.ts:51-125)
ReaderRead(k) ==
    /\ Len(calls) = 1
    /\ calls[1].pc = "read"
    /\ wirePos + k <= Len(wire)
    /\ \E r \in { ReadChunk(pending, buffer, SubSeq(wire, wirePos + 1, wirePos + k)) } :
       \E t \in { FirstThrow(r.events) } :
       \E evs \in { IF t = 0 THEN r.events ELSE SubSeq(r.events, 1, t) } :
       \E f \in { FoldAll(HookOf(1), evs) } :
          /\ pending' = r.pending
          /\ buffer' = r.buffer
          /\ yielded' = yielded \o evs
          /\ SetHook(f.h)
          /\ calls' = [calls EXCEPT ![1].assistantContent = f.h.assistantContent,
                                    ![1].pc = IF f.thrown THEN "caught" ELSE @]
          /\ released' = f.thrown
    /\ wirePos' = wirePos + k
    /\ UNCHANGED <<sessionId, cbSessionId, cbIsStreaming, lastSend, delivered>>
    /\ UNCHANGED <<prodVars, wire>>

\* read() reports done: break, finally, the generator returns and the loop
\* ends (api.ts:110-111, 129-131; useChat.ts:117, 126)
ReaderEnd ==
    /\ Len(calls) = 1
    /\ calls[1].pc = "read"
    /\ wirePos = Len(wire)
    /\ released' = TRUE
    /\ calls' = [calls EXCEPT ![1].pc = "returned"]
    /\ UNCHANGED <<messages, isStreaming, activeTools, error, sessionId,
                   cbSessionId, cbIsStreaming, timers, lastSend, delivered>>
    /\ UNCHANGED <<prodVars, wire, wirePos, pending, buffer, yielded>>

\* a read error that leaves the generator without running its finally block
ReaderReadFailKeepingLock ==
    /\ Len(calls) = 1
    /\ calls[1].pc = "read"
    /\ calls' = [calls EXCEPT ![1].pc = "caught"]
    /\ SetHook(Catch(HookOf(1), "network error"))
    /\ UNCHANGED <<sessionId, cbSessionId, cbIsStreaming, lastSend, delivered>>
    /\ UNCHANGED <<prodVars, wireVars>>

\* read() rejects: the error leaves the loop through the finally block and
\* reaches sendMessage's catch (api.ts:110, 129-131; useChat.ts:118-125)
ReaderReadFail ==
    /\ Len(calls) = 1
    /\ calls[1].pc = "read"
    /\ calls' = [calls EXCEPT ![1].pc = "caught"]
    /\ SetHook(Catch(HookOf(1), "network error"))
    /\ released' = TRUE
    /\ UNCHANGED <<sessionId, cbSessionId, cbIsStreaming, lastSend, delivered>>
    /\ UNCHANGED <<prodVars, wire, wirePos, pending, buffer, yielded>>

InitReader ==
    /\ HookInit /\ ProdIdle
    /\ wire \in ReaderWires
    /\ wirePos = 0 /\ pending = <<>> /\ buffer = <<>>
    /\ yielded = <<>> /\ released = FALSE

NextReader ==
    \/ HandleNewSession
    \/ Render
    \/ \E content \in Contents : TurnSend(content)
    \/ FoldFetchOk
    \/ \E k \in ReadSizes : ReaderRead(k)
    \/ ReaderEnd
    \/ ReaderReadFail

SpecReader == InitReader /\ [][NextReader]_vars

-----------------------------------------------------------------------------
(* One turn folding events with and without a usable payload               *)

\* most events yielded in the turn
MaxPayloadFold == 3

\* events the switch has nothing to do for: an unknown type, a message with
\* no content, a tool without a name, a tool status that is neither start
\* nor end
InertEvents ==
    { Ev("ping", <<>>, "", "", ""),
      MessageEv(<<>>),
      ToolEv("", "start"),
      ToolEv("search", "progress") }

\* the events of the turn
PayloadEvents ==
    InertEvents
    \cup { MessageEv(<<"a">>), ToolEv("search", "start"),
           ToolEv("search", "end"), ErrorEv("boom") }

\* streamChat yields ev and the loop body folds it (useChat.ts:51-117)
PayloadRead(ev) ==
    /\ Len(yielded) < MaxPayloadFold
    /\ FoldRead(ev)

InitPayload == HookInit /\ ProdIdle /\ WireIdle

NextPayload ==
    \/ HandleNewSession
    \/ Render
    \/ \E content \in Contents : TurnSend(content)
    \/ FoldFetchOk
    \/ \E ev \in PayloadEvents : PayloadRead(ev)
    \/ FoldEnd
    \/ FoldFail
    \/ TimerFire

SpecPayload == InitPayload /\ [][NextPayload]_vars

-----------------------------------------------------------------------------
(* One turn with clearMessages at any point                                *)

InitClear == HookInit /\ ProdIdle /\ WireIdle

NextClear ==
    \/ HandleNewSession
    \/ Render
    \/ \E content \in Contents : TurnSend(content)
    \/ FoldFetchOk
    \/ \E ev \in SessionEvents : SessionRead(ev)
    \/ FoldEnd
    \/ FoldFail
    \/ TimerFire
    \/ ClearMessages

SpecClear == InitClear /\ [][NextClear]_vars

-----------------------------------------------------------------------------
(* Properties of the producer, checked under SpecProducer                  *)

IsTerminal(ev) == ev.type \in {"done", "error"}

Terminals(out) == { i \in 1..Len(out) : IsTerminal(out[i]) }

RECURSIVE MessageContents(_)
\* the content fields of the message events of a stream, in order
MessageContents(out) ==
    IF out = <<>> THEN <<>>
    ELSE (IF Head(out).type = "message" THEN <<Head(out).content>> ELSE <<>>)
         \o MessageContents(Tail(out))

RECURSIVE Concat(_)
Concat(ts) == IF ts = <<>> THEN <<>> ELSE Head(ts) \o Concat(Tail(ts))

EndedWithDone == ppc = "closed" /\ pout # <<>> /\ pout[Len(pout)].type = "done"

\* C1: a stream of chat(message) carries at most one terminal event, nothing
\* follows it, and the stream is closed exactly when it has been emitted: a
\* closed stream has one terminal event (done or error), as its last event.
ExactlyOneTerminalEventLast ==
    /\ Cardinality(Terminals(pout)) <= 1
    /\ \A i \in Terminals(pout) : i = Len(pout)
    /\ (ppc = "closed") <=> (Terminals(pout) # {})

\* C1 witness: a closed stream of three message events and done
ClosedAfterThreeChunks ==
    /\ ppc = "closed"
    /\ Len(pout) = 4
    /\ pout[4].type = "done"
    /\ \A i \in 1..3 : pout[i].type = "message"

\* C2: the contents of the message events emitted so far, concatenated in
\* emission order, are the part of the extracted response already sliced, and
\* the whole response once done is emitted.
ChunkingIsLossless ==
    /\ ppc = "chunk" =>
          Concat(MessageContents(pout)) = SubSeq(presp, 1, Min(pidx, Len(presp)))
    /\ EndedWithDone => Concat(MessageContents(pout)) = presp

\* C2 witness: a response of 21 characters went out and the stream ended
LongResponseStreamed ==
    /\ EndedWithDone
    /\ Len(presp) = 21
    /\ Len(MessageContents(pout)) = 3

\* C3: for a response of length L the stream has ceil(L / chunk_size) message
\* events; all but the last carry chunk_size characters and the last carries
\* L mod chunk_size, or chunk_size when that is 0; none for L = 0.
ChunkCountAndSizes ==
    EndedWithDone =>
        LET L  == Len(presp)
            cs == MessageContents(pout)
            k  == (L + chunk_size - 1) \div chunk_size
        IN /\ Len(cs) = k
           /\ \A j \in 1..(k - 1) : Len(cs[j]) = chunk_size
           /\ k > 0 => Len(cs[k]) = (IF L % chunk_size = 0 THEN chunk_size
                                     ELSE L % chunk_size)
           /\ L = 0 => Len(pout) = 1

\* C3 witness: a response of exactly two full slices
TwoFullChunksStreamed ==
    /\ EndedWithDone
    /\ Len(presp) = 2 * chunk_size
    /\ Len(MessageContents(pout)) = 2
    /\ Len(pout[2].content) = chunk_size

-----------------------------------------------------------------------------
(* Properties of the consumer, checked under Spec                          *)

\* a step in which sendMessage was invoked: it records the invocation, and an
\* accepted one starts an activation
SendStep == lastSend' # lastSend \/ Len(calls') > Len(calls)

StreamsInFlight == { i \in 1..Len(calls) : InFlight(i) }

AllStreamsEnded == calls # <<>> /\ StreamsInFlight = {}

\* C5: in every reachable state at most one stream is in flight, whatever the
\* interleaving of sendMessage invocations, re-renders and stream events.
AtMostOneStreamInFlight == Cardinality(StreamsInFlight) <= 1

\* C6: a sendMessage invoked while the hook's isStreaming is true changes neither
\* the transcript, nor the error indicator, nor the active-tool projection, nor
\* isStreaming, and issues no request.
SendWhileStreamingIsNoOp ==
    [][ (SendStep /\ cbIsStreaming)
        => UNCHANGED <<messages, error, activeTools, isStreaming, calls>> ]_vars

\* C6 witness: a send of non-blank content, in a selected session, was turned
\* away while a stream is open
SendWhileStreamingRejected ==
    /\ lastSend.rejected
    /\ Trim(lastSend.content) # <<>>
    /\ cbSessionId # NULL
    /\ cbIsStreaming
    /\ StreamsInFlight # {}
    /\ Len(messages) = 2

\* C7: a sendMessage whose content is empty or whitespace-only appends nothing,
\* leaves isStreaming and the error indicator as they were and issues no request.
BlankSendIsRejected ==
    [][ (SendStep /\ Trim(lastSend'.content) = <<>>)
        => UNCHANGED <<messages, isStreaming, error, activeTools, calls>> ]_vars

\* C7 witness: after a turn that failed, a whitespace-only send was made; the
\* consumer is idle and the error of the failed turn is still shown
BlankSendAfterFailedTurn ==
    /\ lastSend.content = <<" ">>
    /\ lastSend.rejected
    /\ Len(calls) = 1
    /\ calls[1].pc = "caught"
    /\ ~isStreaming
    /\ error # NULL
    /\ Len(messages) = 1

\* the rendered sendMessage closes over the current state
Rendered == <<cbSessionId, cbIsStreaming>> = <<sessionId, isStreaming>>

\* C8: after a turn that ended with an error, a later sendMessage with non-empty
\* content (made once the hook has re-rendered) is accepted: it appends a user
\* message and a placeholder, opens a stream and resets the error indicator.
ErrorDoesNotLatch ==
    [][ (/\ SendStep
         /\ Trim(lastSend'.content) # <<>>
         /\ sessionId # NULL
         /\ Rendered
         /\ AllStreamsEnded
         /\ error # NULL
         /\ Len(calls) < MaxSends)
        => (/\ Len(calls') = Len(calls) + 1
            /\ Len(messages') = Len(messages) + 2
            /\ error' = NULL) ]_vars

\* C9: once every stream of the accepted sends has ended (done then close, an
\* error event then close, a clean close, a transport failure) the consumer is
\* idle: isStreaming is false until the next accepted send.
IdleAfterStreamEnds == AllStreamsEnded => ~isStreaming

-----------------------------------------------------------------------------
(* Properties of one turn end to end, checked under SpecTurn               *)

\* done has been yielded by streamChat, and so folded by the same read
DoneFolded == \E j \in 1..Len(yielded) : yielded[j].type = "done"

\* C4: for a turn whose stream carries the message events of an extracted
\* response followed by done, however the transport cuts the framed bytes into
\* reads, once done is folded the events folded are the events the producer
\* wrote, in its order, and the last transcript entry is the assistant message
\* whose content is the producer's extracted response.
TurnShowsExtractedResponse ==
    DoneFolded =>
        /\ yielded = pout
        /\ messages # <<>>
        /\ messages[Len(messages)].role = "assistant"
        /\ messages[Len(messages)].content = presp

\* the scenario of an 11-character response in two message events, then done,
\* read to the end of the body
ElevenCharacterTurnDone ==
    /\ Len(presp) = 11
    /\ DoneFolded
    /\ released
    /\ Len(yielded) = 3
    /\ messages[Len(messages)].content = presp

-----------------------------------------------------------------------------
(* Properties of the decoder, checked under SpecStream                     *)

\* the events of the data: -prefixed, newline-terminated lines of a whole byte
\* sequence that parse, in order
WholeStreamEvents(bytes) ==
    LET chars == Utf8Decode(<<>>, bytes).chars
        lfs   == {i \in 1..Len(chars) : chars[i] = LF}
        LineStart(e) == IF \E i \in lfs : i < e
                        THEN 1 + CHOOSE i \in lfs : i < e /\ \A j \in lfs : j < e => j <= i
                        ELSE 1
        Ordered(S) == CHOOSE q \in [1..Cardinality(S) -> S] :
                          \A a, b \in 1..Cardinality(S) : a < b => q[a] < q[b]
        ends  == Ordered(lfs)
    IN LinesEvents([j \in 1..Len(ends) |-> SubSeq(chars, LineStart(ends[j]), ends[j] - 1)])

\* C10: whatever the cut of the byte stream into reads, the events yielded
\* after any number of reads are the parsed data: -prefixed newline-terminated
\* lines of the bytes read so far, in order; so two partitions of one stream
\* yield the same events, and at the end those of the whole stream.
DecoderIgnoresChunkBoundaries ==
    yielded = WholeStreamEvents(SubSeq(wire, 1, wirePos))

\* a record whose line and two-byte character were cut by the reads has been
\* yielded, and the reads have now cut the prefix of the next record
RecordYieldedAcrossReads ==
    /\ wirePos < Len(wire)
    /\ Len(yielded) = 1
    /\ yielded[1].content = <<EAcute>>
    /\ buffer = <<"d", "a", "t">>

RECURSIVE JoinLF(_)
\* the segments of a split put together again
JoinLF(segs) ==
    IF Len(segs) = 1 THEN segs[1]
    ELSE segs[1] \o <<LF>> \o JoinLF(Tail(segs))

\* a byte sequence without its complete lines that are SkippedLines
WithoutSkipped(bytes) ==
    LET segs == SplitLF(bytes)
        n    == Len(segs)
        kept == SelectSeq([j \in 1..n |-> <<j, segs[j]>>],
                          LAMBDA e : e[1] = n \/ e[2] \notin SkippedLines)
    IN JoinLF([j \in 1..Len(kept) |-> kept[j][2]])

\* C11: a line without the data: prefix and a data: line whose payload is not
\* JSON are skipped and nothing else: what has been yielded after any reads is
\* what the same bytes yield once those lines are taken out, so the records
\* before and after them are yielded in order, and the stream is read to its
\* end (no read leaves the loop other than by the end of the body).
SkippedLinesChangeNothing ==
    /\ yielded = ReadChunk(<<>>, <<>>, WithoutSkipped(SubSeq(wire, 1, wirePos))).events
    /\ released => wirePos = Len(wire)

\* a stream of a record, a record cut short and a record has been read to its
\* end: both records were yielded
RecordsAroundMalformedYielded ==
    /\ released
    /\ wire = DataPrefix \o JsonDumps(MessageEv(<<"a">>)) \o <<LF>>
                \o DataPrefix \o <<"{">> \o JsonString(<<"type">>) \o <<LF>>
                \o DataPrefix \o JsonDumps(DoneEv) \o <<LF>>
    /\ yielded = <<MessageEv(<<"a">>), DoneEv>>

\* the line feeds among the bytes read so far
LineFeedsRead == { k \in 1..wirePos : wire[k] = LF }

\* C27: only complete newline-terminated records are processed. The close of
\* the transport yields nothing; what is then left in the buffer is the text
\* after the last line feed of the stream, and it is never yielded, a
\* well-formed done record included: no more events than line feeds.
UnterminatedRecordNeverYielded ==
    /\ [][ (~released /\ released') => yielded' = yielded ]_vars
    /\ [] (released => buffer = KeptBuffer(SplitLF(Utf8Decode(<<>>, wire).chars)))
    /\ [] (Len(yielded) <= Cardinality(LineFeedsRead))

\* a stream of a message record and a done record without its line feed has
\* been closed: the message was yielded, the done record is left in the buffer
UnterminatedDoneLeftInBuffer ==
    /\ released
    /\ LineEvents(buffer) = <<DoneEv>>
    /\ Len(yielded) = 1
    /\ yielded[1].type = "message"

-----------------------------------------------------------------------------
(* Properties of the fold, checked under SpecFold                          *)

\* the step folds one more event of the turn
FoldStep == Len(yielded') = Len(yielded) + 1

\* the event the step folds
Folded == yielded'[Len(yielded')]

\* C12: folding a message event leaves the number of transcript entries and
\* every entry but the last as they are; of the last entry only the content
\* changes, to the concatenation of the contents of the turn's message events
\* folded so far, in arrival order.
MessageFoldKeepsEntries ==
    [][ (FoldStep /\ Folded.type = "message")
        => LET n == Len(messages)
           IN /\ Len(messages') = n
              /\ n > 0
              /\ \A i \in 1..(n - 1) : messages'[i] = messages[i]
              /\ messages'[n] = [messages[n] EXCEPT
                                   !.content = Concat(MessageContents(yielded'))] ]_vars

\* three message events with a tool start among them have been folded: the
\* transcript still has its two entries and the last reads "aba"
ThreeMessagesFolded ==
    /\ yielded = <<MessageEv(<<"a">>), MessageEv(<<"b">>), ToolEv("search", "start"),
                   MessageEv(<<"a">>)>>
    /\ Len(messages) = 2
    /\ messages[2].content = <<"a", "b", "a">>

\* ev starts the tool called name
StartsTool(ev, name) ==
    ev.type = "tool" /\ ev.status = "start" /\ ev.tool_name = name /\ name # ""

\* the assistant message of the turn is in the transcript
PlaceholderInTranscript == Len(calls) = 1 /\ calls[1].pc \in {"read", "returned"}

\* C13: while the turn's assistant message is in the transcript, its tools_used
\* holds exactly the tool names started so far in the turn, each once, in the
\* order of their first start, whatever end events, repeated starts and
\* message events came in between.
StartedToolsListedOnce ==
    PlaceholderInTranscript =>
        LET u == messages[Len(messages)].tools_used
            FirstStart(name) == CHOOSE i \in 1..Len(yielded) :
                                   /\ StartsTool(yielded[i], name)
                                   /\ \A j \in 1..(i - 1) : ~StartsTool(yielded[j], name)
        IN /\ \A i, j \in 1..Len(u) : i # j => u[i] # u[j]
           /\ {u[i] : i \in 1..Len(u)}
                = {name \in ToolNames : \E i \in 1..Len(yielded) : StartsTool(yielded[i], name)}
           /\ \A i, j \in 1..Len(u) : i < j => FirstStart(u[i]) < FirstStart(u[j])

\* search and calculator were started in that order and ended in the other,
\* and the stream has ended: tools_used is search, calculator
TwoToolPairsFolded ==
    /\ yielded = <<ToolEv("search", "start"), ToolEv("calculator", "start"),
                   ToolEv("calculator", "end"), ToolEv("search", "end")>>
    /\ calls[1].pc = "returned"
    /\ messages[Len(messages)].tools_used = <<"search", "calculator">>

\* C14: the active-tool projection is keyed by name: in every reachable state
\* no two of its entries carry the same tool name.
OneEntryPerToolName ==
    \A i, j \in 1..Len(activeTools) :
        activeTools[i].name = activeTools[j].name => i = j

\* the projection has an entry for name
HasEntry(tools, name) == \E i \in 1..Len(tools) : tools[i].name = name

\* a removal timer for name is scheduled and has not fired
TimerPending(name) == \E i \in 1..Len(timers) : timers[i] = name

\* C15: folding tool{end} for a name flips its entries to completed, and while
\* the removal timer of that end has not fired (the 2000 ms have not elapsed)
\* no event folded from the stream takes the entry out of the projection.
CompletedEntryStaysUntilTimer ==
    [][ FoldStep =>
          /\ (Folded.type = "tool" /\ Folded.status = "end" /\ Folded.tool_name # "")
                => \A i \in 1..Len(activeTools') :
                      activeTools'[i].name = Folded.tool_name
                          => activeTools'[i].status = "completed"
          /\ \A name \in ToolNames :
                (HasEntry(activeTools, name) /\ TimerPending(name))
                    => HasEntry(activeTools', name) ]_vars

\* C16: the removal is cancel-safe: a timer that fires when the projection has
\* no entry of its name (cleared by done, by the catch block, or removed by an
\* earlier timer) raises nothing and changes no state but its own
\* disappearance.
RemovalOfAbsentEntryIsNoOp ==
    [][ (/\ timers # <<>>
         /\ timers' = Tail(timers)
         /\ ~HasEntry(activeTools, Head(timers)))
        => UNCHANGED <<messages, isStreaming, activeTools, error, sessionId,
                       calls, yielded>> ]_vars

\* search was started and ended twice before done cleared the projection; all
\* timers have fired, the second of them at the latest on a projection without
\* search, and the turn ended without an error
TimersFiredAfterClear ==
    /\ yielded = <<ToolEv("search", "start"), ToolEv("search", "end"),
                   ToolEv("search", "end"), DoneEv>>
    /\ timers = <<>>
    /\ activeTools = <<>>
    /\ error = NULL
    /\ calls[1].pc = "returned"

\* C17: folding an error event sets the error indicator to the event's message,
\* or to the default text when the event has none, throws nothing (the loop goes
\* on reading) and leaves the transcript as it is, the partial content of the
\* last message included.
ErrorEventKeepsTranscript ==
    [][ (FoldStep /\ Folded.type = "error")
        => /\ error' = (IF Folded.message = "" THEN "An error occurred"
                        ELSE Folded.message)
           /\ messages' = messages
           /\ calls'[1].pc = "read" ]_vars

\* an error event without a message was folded after a message event: the
\* default text is shown and the partial content is still there
ErrorAfterPartialContent ==
    /\ yielded = <<MessageEv(<<"a">>), ErrorEv("")>>
    /\ error = "An error occurred"
    /\ Len(messages) = 2
    /\ messages[2].content = <<"a">>

\* done is among the events folded so far
DoneSeen == \E i \in 1..Len(yielded) : yielded[i].type = "done"

\* C18: done ends the fold loop: once done has been folded, an event that
\* arrives later on the same stream changes neither the transcript nor the
\* active-tool projection nor the error indicator.
NothingFoldedAfterDone ==
    [][ (FoldStep /\ DoneSeen) => UNCHANGED <<messages, activeTools, error>> ]_vars

-----------------------------------------------------------------------------
(* Transport failures, checked under Spec                                  *)

\* the step is the catch block of activation i run for a failure of the
\* transport: the request or a read was rejected, no event was folded
TransportFailureStep(i) ==
    /\ InFlight(i)
    /\ calls'[i].pc = "caught"
    /\ delivered' = delivered

\* C19: whenever the transport of a turn fails (request rejected, non-2xx
\* status, no body, a read rejected mid-stream) the error indicator is set, the
\* active-tool projection is emptied, isStreaming becomes false, and the
\* transcript becomes what it was before the turn's send plus the turn's user
\* message: the turn's assistant placeholder is discarded with its content.
TransportFailureDiscardsPlaceholder ==
    [][ \A i \in 1..Len(calls) :
          TransportFailureStep(i)
            => /\ error' # NULL
               /\ activeTools' = <<>>
               /\ ~isStreaming'
               /\ messages' = SubSeq(messages, 1, calls[i].base)
                                \o <<UserMessage(Trim(calls[i].message))>> ]_vars

-----------------------------------------------------------------------------
(* The producer's failure path, checked under SpecProducer                 *)

\* C20: when the agent call or the extraction fails, the stream is one error
\* event with a message and nothing else (no done), it is delivered as a framed
\* record of a body that then ends (not as a failure of the transport), and
\* the user message logged when the request arrived stays in the log.
FailureIsOneErrorEvent ==
    [][ (ppc = "invoke" /\ ppc' = "closed")
        => /\ Len(pout') = 1
           /\ pout'[1].type = "error"
           /\ pout'[1].message # ""
           /\ wire' = Frame(pout'[1])
           /\ plog' = <<UserMessage(pmsg)>> ]_vars

\* the agent call of a request has failed and the stream is closed
FailedRequestClosed ==
    /\ ppc = "closed"
    /\ pmsg # <<>>
    /\ pout = <<ErrorEv("boom")>>
    /\ plog = <<UserMessage(pmsg)>>

-----------------------------------------------------------------------------
(* The accepted send, checked under Spec                                   *)

\* the step is a send that was accepted
AcceptedSendStep == Len(calls') = Len(calls) + 1

\* C22, as stated: an accepted send appends a user message carrying the
\* submitted content and an assistant message with empty content and empty
\* tools_used, both before the request is issued.
SendAppendsSubmittedContent ==
    [][ AcceptedSendStep
        => /\ messages' = messages \o <<UserMessage(lastSend'.content), AssistantMessage>>
           /\ calls'[Len(calls')].pc = "fetch" ]_vars

\* C22, amended: an accepted send appends exactly two entries, a user message
\* carrying the submitted content without its leading and trailing white space
\* and an assistant message with empty content and empty tools_used; they are
\* in the transcript when the request is issued and not yet answered.
SendAppendsTrimmedContent ==
    [][ AcceptedSendStep
        => /\ messages' = messages \o <<UserMessage(Trim(lastSend'.content)),
                                        [role |-> "assistant", content |-> <<>>,
                                         tools_used |-> <<>>]>>
           /\ calls'[Len(calls')].pc = "fetch"
           /\ calls'[Len(calls')].message = lastSend'.content ]_vars

\* " hi " was accepted as the first send: the transcript is the user message
\* "hi" and the empty placeholder, and the request is on its way
FirstSendAppended ==
    /\ Len(calls) = 1
    /\ calls[1].pc = "fetch"
    /\ lastSend = [content |-> <<" ", "h", "i", " ">>, rejected |-> FALSE]
    /\ messages = <<UserMessage(<<"h", "i">>), AssistantMessage>>

-----------------------------------------------------------------------------
(* The turn of an empty response, checked under SpecTurn                   *)

-----------------------------------------------------------------------------
(* The transcript during and after a turn, checked under Spec              *)

\* turn i is in flight before and after the step
StaysInFlight(i) == InFlight(i) /\ calls'[i].pc \in {"fetch", "read"}

\* the step folded a message event of turn i
FoldedMessageOf(i) == calls'[i].assistantContent # calls[i].assistantContent

\* entry k is the same before and after the step
KeepsEntry(k) == k <= Len(messages') /\ messages'[k] = messages[k]

\* C24: the transcript is append-only during a turn. While a turn is in flight
\* its two entries and every entry before them stay in the transcript, the
\* entries up to its user message are not modified, and a message event of the
\* turn modifies no entry but the turn's own placeholder.
TranscriptAppendOnlyDuringTurn ==
    [][ \A i \in 1..Len(calls) :
          StaysInFlight(i)
          => /\ Len(messages') >= calls[i].base + 2
             /\ \A k \in 1..(calls[i].base + 1) : KeepsEntry(k)
             /\ FoldedMessageOf(i)
                => \A k \in 1..Len(messages) :
                      k # calls[i].base + 2 => KeepsEntry(k) ]_vars

\* turn i has ended: its loop returned or its catch block ran
TurnEnded(i) == calls[i].pc \in {"returned", "caught"}

\* C25: a message is immutable once its stream has terminated. After a turn
\* has ended, no step other than a new accepted send changes or removes the
\* entries the turn left in the transcript.
EndedTurnEntriesImmutable ==
    [][ Len(calls') = Len(calls)
        => \A i \in 1..Len(calls) :
              TurnEnded(i)
              => \A k \in {calls[i].base + 1, calls[i].base + 2} :
                    k <= Len(messages) => KeepsEntry(k) ]_vars

-----------------------------------------------------------------------------
(* Properties of the history endpoints, checked under SpecHistory          *)

\* the step is a history fetch: the producer is left alone and the session is
\* not being created
HistoryFetchStep ==
    /\ sessionId # NULL
    /\ UNCHANGED <<prodVars, wire, sessionId>>

-----------------------------------------------------------------------------
(* The payload of a turn, checked under Spec                               *)

\* C28: the text sent to the producer as the payload of a turn is identical
\* to the content of the user message the send appends to the transcript,
\* for every accepted content.
PayloadIsTranscriptContent ==
    [][ AcceptedSendStep
        => calls'[Len(calls')].message = messages'[Len(messages') - 1].content ]_vars

-----------------------------------------------------------------------------
(* A turn while the transcript is replaced, checked under SpecSession      *)

\* entry k is the placeholder the turn's send appended, after the turn's user
\* message and with the text the turn has accumulated
IsOwnPlaceholder(k) ==
    /\ k = calls[1].base + 2
    /\ messages[k - 1] = UserMessage(Trim(calls[1].message))
    /\ messages[k].role = "assistant"
    /\ messages[k].content = calls[1].assistantContent

\* the step changes or removes no entry but the turn's own placeholder
TouchesOwnPlaceholderOnly ==
    \A k \in 1..Len(messages) : KeepsEntry(k) \/ IsOwnPlaceholder(k)

\* C29: text deltas and tool names of a turn are only written into the
\* placeholder created by that send. When loadHistory or clearMessages has
\* replaced the transcript while the stream is open, a later message or
\* tool start event of the stream modifies no entry of the transcript.
EventsWriteOwnPlaceholderOnly ==
    [][ (FoldStep /\ (Folded.type = "message"
                      \/ (Folded.type = "tool" /\ Folded.status = "start")))
        => TouchesOwnPlaceholderOnly ]_vars

\* the step is the rollback of the turn: its catch block runs
RollbackStep == Len(calls) = 1 /\ InFlight(1) /\ calls'[1].pc = "caught"

\* C30: the rollback on transport failure removes the placeholder created by
\* the failing send and no other message, also when clearMessages or
\* loadHistory replaced the transcript between the send and the failure.
RollbackRemovesOwnPlaceholderOnly ==
    [][ RollbackStep => TouchesOwnPlaceholderOnly ]_vars

-----------------------------------------------------------------------------
(* Removal timers and restarted tools, checked under SpecFold              *)

\* the step is the firing of a removal timer
TimerFiredStep == Len(timers') = Len(timers) - 1

IsActive(t) == t.status = "active"

\* C31: a removal timer never removes an entry whose status is active: the
\* active entries of the projection are the same before and after a firing.
TimerKeepsActiveEntries ==
    [][ TimerFiredStep
        => SelectSeq(activeTools', IsActive) = SelectSeq(activeTools, IsActive) ]_vars

\* C32: the active-tool projection never leaks: once the turn's stream has
\* ended in any way and no removal timer is pending, the projection is empty.
ProjectionEmptyAfterTurn ==
    (Len(calls) = 1 /\ TurnEnded(1) /\ timers = <<>>) => activeTools = <<>>

-----------------------------------------------------------------------------
(* Properties of the reader lock and of records that are no events,        *)
(* checked under SpecReader                                                *)

\* C33: once the reader was obtained streamChat releases the lock on every
\* way it ends (end of stream, a read error, the consumer ending the
\* generator early), not before it ends, and once: a released lock stays
\* released; no event is yielded after the release.
ReaderLockReleasedOnEveryEnd ==
    /\ [] ((Len(calls) = 1 /\ TurnEnded(1)) => released)
    /\ [] (released => (Len(calls) = 1 /\ TurnEnded(1)))
    /\ [][ released => (released' /\ yielded' = yielded) ]_vars

\* the consumer ended the generator at the yield of a null value while bytes
\* of the body were still unread, and the lock is released
ReleasedOnEarlyTermination ==
    /\ released
    /\ calls[1].pc = "caught"
    /\ wirePos < Len(wire)
    /\ yielded = <<MessageEv(<<"a">>), NullValue>>
    /\ error = "Cannot read properties of null"

\* the step yields a record that parsed to null
YieldsNull == \E j \in (Len(yielded) + 1)..Len(yielded') : yielded'[j] = NullValue

\* C34: a record that is valid JSON but no StreamEvent object (data: null)
\* does not abort the turn: the step that meets it leaves the turn reading,
\* keeps the assistant message and sets no error.
NullRecordDoesNotAbortTurn ==
    [][ YieldsNull
        => /\ calls'[1].pc = "read"
           /\ Len(messages') = Len(messages)
           /\ error' = error ]_vars

-----------------------------------------------------------------------------
(* Events without a usable payload, checked under SpecPayload              *)

\* C35: folding an event that carries no usable payload (an unknown type, a
\* message with absent or empty content, a tool without tool_name, a tool
\* whose status is neither start nor end) changes neither the transcript, nor
\* the active-tool projection, nor isStreaming, nor the error indicator, and
\* schedules no timer.
InertEventChangesNothing ==
    [][ (FoldStep /\ Folded \in InertEvents)
        => UNCHANGED <<messages, activeTools, isStreaming, error, timers>> ]_vars

\* after a tool start and a message, an event with an unknown tool status was
\* folded: the active entry, the text and the streaming flag are as before
InertEventFoldedMidTurn ==
    /\ yielded = <<ToolEv("search", "start"), MessageEv(<<"a">>),
                   ToolEv("search", "progress")>>
    /\ activeTools = <<[name |-> "search", status |-> "active"]>>
    /\ messages[Len(messages)].content = <<"a">>
    /\ isStreaming
    /\ error = NULL
    /\ timers = <<>>

-----------------------------------------------------------------------------
(* loadHistory and clearMessages, checked under SpecSession and SpecClear  *)

\* the step is a loadHistory or a clearMessages that had an effect: the
\* transcript or the error indicator changes and no turn, timer, render or
\* session change acts
ReplaceStep ==
    /\ UNCHANGED <<calls, timers, yielded, sessionId, cbSessionId, cbIsStreaming>>
    /\ messages' # messages \/ error' # error

\* C36: loadHistory either replaces the transcript with the fetched history
\* and clears the error indicator, or, when the fetch fails, sets the error
\* indicator and leaves the transcript unchanged; with no session selected
\* nothing changes; in no case does it change isStreaming or the active-tool
\* projection.
LoadHistoryReplacesOrReports ==
    /\ [][ ReplaceStep
           => /\ UNCHANGED <<isStreaming, activeTools>>
              /\ \/ messages' \in Histories /\ error' = NULL
                 \/ messages' = messages /\ error' = "Failed to fetch history" ]_vars
    /\ [][ sessionId = NULL
           => UNCHANGED <<messages, error, isStreaming, activeTools>> ]_vars

\* a history was loaded while the turn was reading and a tool was running:
\* the transcript is the history, the turn still streams, the tool is shown
HistoryLoadedMidTurn ==
    /\ Len(calls) = 1 /\ calls[1].pc = "read"
    /\ messages \in Histories /\ messages # <<>>
    /\ error = NULL
    /\ isStreaming
    /\ activeTools = <<[name |-> "search", status |-> "active"]>>

\* C37: clearMessages sets the transcript to empty and the error indicator to
\* null and leaves isStreaming and the active-tool projection unchanged;
\* while a stream is open it does not close the stream, and the folding of
\* later events raises no exception.
ClearMessagesIsHarmless ==
    /\ [][ ReplaceStep
           => /\ messages' = <<>> /\ error' = NULL
              /\ UNCHANGED <<isStreaming, activeTools, calls>> ]_vars
    /\ [] (\A i \in 1..Len(calls) : calls[i].pc # "crashed")

=============================================================================
